---- MODULE Spec2Model ----
(***************************************************************************)
(* A model of lightning/mydump/reader.go: the chunked statement reader     *)
(* (MDDataReader) and the region reader (RegionReader) over an immutable   *)
(* dump file.  The file is a string of bytes; offsets are 0-based as in    *)
(* the source, so the byte at offset p is Ch(f, p + 1).                    *)
(***************************************************************************)
EXTENDS Integers, Sequences, FiniteSets, TLC

VARIABLES file, regions, mdr, rr, calls, fds, handles, pending

vars == <<file, regions, mdr, rr, calls, fds, handles, pending>>

\* The file handles: fds[r] tells whether worker r's reader holds an open
\* or a closed *os.File, handles counts the handles of the process that
\* are open, pending[r] is a Read of worker r that has not returned.
io == <<fds, handles, pending>>

(***************************************************************************)
(* Bounds of the model.                                                    *)
(***************************************************************************)
MaxRows == 3
MaxAnn == 2
MaxCalls == 6
MaxSeekCalls == 4
MaxRegionCalls == 4
MaxCloseCalls == 4
MaxSpins == 2

Readers == {1, 2}
Nil == [nil |-> TRUE]

(***************************************************************************)
(* Byte-string helpers: strings.TrimSpace, HasPrefix, HasSuffix and the    *)
(* line reads of bufio.                                                    *)
(***************************************************************************)
Ch(s, i) == SubSeq(s, i, i)

Min(a, b) == IF a < b THEN a ELSE b

Max(a, b) == IF a > b THEN a ELSE b

IsSpace(c) == c \in {" ", "\n", "\t", "\r"}

RECURSIVE TrimLeft(_)
TrimLeft(s) ==
    IF Len(s) > 0 /\ IsSpace(Ch(s, 1)) THEN TrimLeft(Tail(s)) ELSE s

RECURSIVE TrimRight(_)
TrimRight(s) ==
    IF Len(s) > 0 /\ IsSpace(Ch(s, Len(s)))
    THEN TrimRight(SubSeq(s, 1, Len(s) - 1))
    ELSE s

TrimSpace(s) == TrimRight(TrimLeft(s))

HasPrefix(s, p) == Len(p) <= Len(s) /\ SubSeq(s, 1, Len(p)) = p

HasSuffix(s, p) ==
    Len(p) <= Len(s) /\ SubSeq(s, Len(s) - Len(p) + 1, Len(s)) = p

\* The 1-based index of the first newline after offset p, or 0.
IndexNL(f, p) ==
    LET S == {i \in (p + 1)..Len(f) : Ch(f, i) = "\n"}
    IN  IF S = {} THEN 0 ELSE CHOOSE i \in S : \A j \in S : i <= j

\* bufio's ReadString('\n') / ReadBytes('\n') with the cursor at offset p:
\* the bytes up to and including the next newline, or the rest of the
\* file with io.EOF when there is no newline left.
ReadLine(f, p) ==
    LET nl == IF p >= Len(f) THEN 0 ELSE IndexNL(f, p)
    IN  IF p >= Len(f) THEN [line |-> "", eof |-> TRUE]
        ELSE IF nl = 0 THEN [line |-> SubSeq(f, p + 1, Len(f)), eof |-> TRUE]
        ELSE [line |-> SubSeq(f, p + 1, nl), eof |-> FALSE]

(***************************************************************************)
(* insStmtRegex = (?i)INSERT INTO .* VALUES, leftmost match, greedy .*     *)
(***************************************************************************)
UpperChars == "ABCDEFGHIJKLMNOPQRSTUVWXYZ"
LowerChars == "abcdefghijklmnopqrstuvwxyz"

Fold(c) ==
    IF \E k \in 1..Len(LowerChars) : Ch(LowerChars, k) = c
    THEN Ch(UpperChars, CHOOSE k \in 1..Len(LowerChars) : Ch(LowerChars, k) = c)
    ELSE c

RECURSIVE FoldStr(_)
FoldStr(s) == IF Len(s) = 0 THEN "" ELSE Fold(Ch(s, 1)) \o FoldStr(Tail(s))

RegexHead == "INSERT INTO "
RegexTail == " VALUES"

\* FindStringIndex: <<>> when the line has no match, else <<lo, hi>> with
\* line[lo:hi] the match (0-based, hi exclusive).  '.' does not match '\n'.
FindStringIndex(line) ==
    LET u == FoldStr(line)
        n == Len(u)
        h == Len(RegexHead)
        t == Len(RegexTail)
        NoNL(a, b) == \A k \in a..b : Ch(u, k) # "\n"
        Ends(i) == {j \in (i + h)..(n - t + 1) :
                       /\ SubSeq(u, j, j + t - 1) = RegexTail
                       /\ NoNL(i + h, j - 1)}
        Starts == {i \in 1..(n - h + 1) :
                       /\ SubSeq(u, i, i + h - 1) = RegexHead
                       /\ Ends(i) # {}}
    IN  IF Starts = {} THEN <<>>
        ELSE LET i == CHOOSE x \in Starts : \A y \in Starts : x <= y
                 j == CHOOSE x \in Ends(i) : \A y \in Ends(i) : x >= y
             IN  <<i - 1, j + t - 1>>

\* getInsertStatementHeader: the match of the first matching line; a line
\* that ends the file without a newline is never examined (the EOF test
\* comes before the match).
RECURSIVE HeaderScan(_, _)
HeaderScan(f, p) ==
    LET r == ReadLine(f, p)
        loc == FindStringIndex(r.line)
    IN  IF r.eof THEN ""
        ELSE IF Len(loc) > 0 THEN SubSeq(r.line, loc[1] + 1, loc[2])
        ELSE HeaderScan(f, p + Len(r.line))

getInsertStatementHeader(f) == HeaderScan(f, 0)

(***************************************************************************)
(* The dump files the model reads.                                         *)
(***************************************************************************)
HeaderText == "INSERT INTO t VALUES"
HeaderLine == HeaderText \o "\n"

Digits == <<"1", "2", "3", "4", "5", "6", "7", "8", "9">>
Letters == <<"A", "B", "C", "D", "E", "F", "G", "H", "J">>

\* The i-th value row, and its line in a body of n rows.
Row(i) == "(" \o Digits[i] \o ")"
RowLine(i, n) == Row(i) \o (IF i = n THEN ";" ELSE ",") \o "\n"

\* The row lines a..b of a body of n rows.
RECURSIVE RowLines(_, _, _)
RowLines(a, b, n) ==
    IF a > b THEN "" ELSE RowLine(a, n) \o RowLines(a + 1, b, n)

\* An annotation line of the shape /* ... */;
AnnLine(k) == "/*" \o Letters[k] \o "*/;\n"

RECURSIVE AnnLines(_)
AnnLines(k) == IF k = 0 THEN "" ELSE AnnLines(k - 1) \o AnnLine(k)

DropNL(s) == IF HasSuffix(s, "\n") THEN SubSeq(s, 1, Len(s) - 1) ELSE s

\* k annotation lines, the header line, n value rows; nl: the file ends
\* in a newline.
Dump(k, n, nl) ==
    LET s == AnnLines(k) \o HeaderLine \o RowLines(1, n, n)
    IN  IF nl THEN s ELSE DropNL(s)

\* A dump of n rows with one annotation line after row j.
Embedded(n, j) ==
    HeaderLine \o RowLines(1, j, n) \o AnnLine(1) \o RowLines(j + 1, n, n)

PlainDumps == {Dump(0, n, nl) : n \in 1..MaxRows, nl \in BOOLEAN}

AnnotatedDumps == {Dump(k, n, nl) : k \in 1..MaxAnn, n \in 0..MaxRows, nl \in BOOLEAN}

EmbeddedDumps ==
    {Embedded(q[1], q[2]) : q \in {x \in (2..MaxRows) \X (1..MaxRows) : x[2] < x[1]}}

\* Files outside the documented shape.
OddFiles ==
    { "(1),\n(2);\n",
      HeaderText,
      HeaderLine,
      "insert into t values\n(1);\n",
      HeaderText \o " (1),\n(2);\n",
      HeaderLine \o "(1)\n(2);\n",
      HeaderLine \o "(1),\n/*c*/\n(2);\n",
      HeaderLine \o "\n  (1), \n(2);\n",
      HeaderLine \o "(1);\n" \o HeaderLine \o "(2);\n",
      "/* INSERT INTO x VALUES */;\n" \o HeaderLine \o "(1);\n",
      HeaderLine \o "(1),\n(2)",
      HeaderText \o " (1);" }

\* Dumps whose last line is a row with neither ',' nor ';' after it.
BadRow == "(9)"

BadTailDumps == {Dump(0, n, TRUE) \o BadRow \o "\n" : n \in 1..MaxRows}

Files ==
    PlainDumps \cup AnnotatedDumps \cup EmbeddedDumps \cup OddFiles
        \cup BadTailDumps

\* The sizes a caller passes to Read.
Sizes == {1, 10, 22, 100}

(***************************************************************************)
(* MDDataReader                                                            *)
(***************************************************************************)
\* The annotation test with the suffix Read's comment test uses.
IsAnnotation_NoSemicolon(line) == HasPrefix(line, "/*") /\ HasSuffix(line, "*/")

IsAnnotation(line) == HasPrefix(line, "/*") /\ HasSuffix(line, "*/;")

\* The loop of skipAnnotation.  fd0 is the handle's offset when the
\* buffered reader was created on it (the reader reads from there, not
\* from `offset`), cur the buffered reader's cursor.  The result is the
\* handle's offset afterwards: the explicit seek on the first line that
\* is no annotation, or, on io.EOF, wherever the buffered reads left the
\* handle, which is the end of the file.
RECURSIVE SkipLoop(_, _, _, _, _, _)
SkipLoop(f, fsize, fd0, cur, offset, skipSize) ==
    LET r == ReadLine(f, cur)
        size == Len(r.line)
        line == TrimSpace(SubSeq(r.line, 1, size - 1))
    IN  IF r.eof THEN Max(fd0, Len(f))
        ELSE IF ~IsAnnotation(line) THEN Min(offset + skipSize, fsize)
        ELSE SkipLoop(f, fsize, fd0, cur + size, offset, skipSize + size)

\* skipAnnotation(offset) on a reader m: the handle's new offset.
skipAnnotation(f, m, offset) == SkipLoop(f, m.fsize, m.fd, m.fd, offset, 0)

\* appendSQL without the rewrite of a trailing ',': the statement is
\* appended as it stands.
appendSQL_NoFixup(stmts, sql0, stmtHeader) ==
    LET sql == TrimSpace(sql0)
    IN  IF Len(sql) = 0 \/ ~HasPrefix(sql, stmtHeader) \/ Len(sql) = Len(stmtHeader)
        THEN stmts
        ELSE Append(stmts, sql)

appendSQL_KeepBadEnd(stmts, sql0, stmtHeader) ==
    LET sql == TrimSpace(sql0)
    IN  IF Len(sql) = 0 \/ ~HasPrefix(sql, stmtHeader) \/ Len(sql) = Len(stmtHeader)
        THEN stmts
        ELSE IF HasSuffix(sql, ",")
             THEN Append(stmts, SubSeq(sql, 1, Len(sql) - 1) \o ";")
        ELSE Append(stmts, sql)

\* The closure appendSQL of Read: stmts with sql appended, or stmts.
appendSQL(stmts, sql0, stmtHeader) ==
    LET sql == TrimSpace(sql0)
        sqlLen == Len(sql)
    IN  IF sqlLen = 0 THEN stmts
        ELSE IF ~HasPrefix(sql, stmtHeader) THEN stmts
        ELSE IF sqlLen = Len(stmtHeader) THEN stmts
        ELSE IF HasSuffix(sql, ";") THEN Append(stmts, sql)
        ELSE IF HasSuffix(sql, ",")
             THEN Append(stmts, SubSeq(sql, 1, sqlLen - 1) \o ";")
        ELSE stmts

\* The comment test of Read's loop.
IsComment(line) ==
    Ch(line, 1) = "/" /\ HasPrefix(line, "/*") /\ HasSuffix(line, "*/")

\* Read's loop without its fd.Seek: the handle stays where the buffered
\* reader's look-ahead left it, the end of a file smaller than the buffer.
ReadSeekPos_NoSeek(f, beginPos, readSize) == Len(f)

\* Read's fd.Seek with the bytes counted taken as an absolute offset: the
\* position the call began at is forgotten.
ReadSeekPos_Relative(f, beginPos, readSize) == readSize

\* The handle's offset after the fd.Seek that ends Read's loop: the bytes
\* counted, not the bytes the buffered reader took from the handle.
ReadSeekPos(f, beginPos, readSize) == beginPos + readSize

\* The loop of Read and the flush after it.  cur is the buffered reader's
\* cursor, readSize the bytes counted so far.  The result is the batch and
\* the handle's offset: the explicit seek to beginPos + readSize, or the
\* end of the file when the loop ended on io.EOF.
RECURSIVE ReadLoop(_, _, _, _, _, _, _, _)
ReadLoop(f, stmtHeader, beginPos, minSize, cur, readSize, statement, stmts) ==
    LET r == ReadLine(f, cur)
        lineSize == Len(r.line)
        end == r.eof
        line == TrimSpace(r.line)
        Flush(st, ss) == IF Len(st) > 0 THEN appendSQL(ss, st, stmtHeader) ELSE ss
    IN  IF Len(line) > 0 /\ IsComment(line)
        THEN IF end
             THEN [stmts |-> Flush(statement, stmts), fd |-> Len(f)]
             ELSE ReadLoop(f, stmtHeader, beginPos, minSize, cur + lineSize,
                           readSize, statement, stmts)
        ELSE
          LET joined ==
                  IF Len(line) = 0 THEN statement
                  ELSE (IF Len(statement) = 0 /\ ~HasPrefix(line, stmtHeader)
                        THEN stmtHeader ELSE statement) \o line
              done == Len(line) > 0 /\ HasSuffix(joined, ";")
              statement2 == IF done THEN "" ELSE joined
              stmts2 == IF done THEN appendSQL(stmts, joined, stmtHeader) ELSE stmts
              readSize2 == readSize + lineSize
          IN  IF readSize2 >= minSize
              THEN [stmts |-> Flush(statement2, stmts2),
                    fd |-> ReadSeekPos(f, beginPos, readSize2)]
              ELSE IF end
              THEN [stmts |-> Flush(statement2, stmts2), fd |-> Len(f)]
              ELSE ReadLoop(f, stmtHeader, beginPos, minSize, cur + lineSize,
                            readSize2, statement2, stmts2)

\* acquireBufferReader: the buffer's capacity only grows.
acquireBufferReader(m, size) == IF size > m.bufferSize THEN size ELSE m.bufferSize

\* MDDataReader.Read(minSize) on reader m: the batch, whether io.EOF was
\* returned, and the reader afterwards.
MDRead(f, m, minSize) ==
    LET beginPos == m.fd
        res == ReadLoop(f, m.stmtHeader, beginPos, minSize, beginPos, 0, "", <<>>)
    IN  IF beginPos >= m.fsize
        THEN [stmts |-> <<>>, eof |-> TRUE, m |-> m]
        ELSE [stmts |-> res.stmts, eof |-> FALSE,
              m |-> [m EXCEPT !.fd = res.fd,
                              !.bufferSize = acquireBufferReader(m, 2 * minSize)]]

\* NewMDDataReader(file, offset): Nil when no header is found.
MDNew(f, offset) ==
    LET m0 == [fd |-> offset, fsize |-> Len(f), start |-> offset,
               stmtHeader |-> getInsertStatementHeader(f), bufferSize |-> 0]
    IN  IF Len(m0.stmtHeader) = 0 THEN Nil
        ELSE [m0 EXCEPT !.fd = skipAnnotation(f, m0, offset)]

\* The open handles after NewMDDataReader returned m: os.Open added one;
\* the seek and stat failures close it, the return of
\* ErrInsertStatementNotFound (m = Nil) does not.
MDNewHandles(n, m) == n + 1

\* MDDataReader.Seek(offset).
MDSeek(f, m, offset) == [m EXCEPT !.fd = skipAnnotation(f, m, offset)]

\* MDDataReader.Tell() / currOffset().
MDTell(m) == m.fd

\* currOffset() on a handle that may be closed: the failed fd.Seek is logged
\* and -1 returned.
currOffset(m, fd) == IF fd = "open" THEN MDTell(m) ELSE -1

\* MDDataReader.Close(): r.fd is not nil after construction and is never
\* set to nil, so every Close calls fd.Close(); on a closed file that
\* returns an error, and Close returns it before it resets the buffer.
MDClose(m, fd) ==
    IF fd = "open"
    THEN [m |-> [m EXCEPT !.bufferSize = 0], fd |-> "closed", err |-> FALSE]
    ELSE [m |-> m, fd |-> fd, err |-> TRUE]

(***************************************************************************)
(* RegionReader                                                            *)
(***************************************************************************)
\* NewRegionReader(file, offset, size) around the file reader m.
RegionNew(m, offset, size) ==
    [size |-> size, offset |-> offset, pos |-> MDTell(m)]

\* The size RegionReader.Read asks of the file reader.
RegionReadSize_NoClamp(g, maxBlockSize) == maxBlockSize

RegionReadSize(g, maxBlockSize) ==
    LET readSize == g.offset + g.size - g.pos
    IN  IF maxBlockSize < readSize THEN maxBlockSize ELSE readSize

\* Whether RegionReader.Read returns io.EOF without reading.
RegionAtEnd(g) == g.pos >= g.offset + g.size

(***************************************************************************)
(* The state machine.  file is the dump file, regions the byte windows the *)
(* planner hands to the workers, mdr[r] and rr[r] worker r's file reader   *)
(* and region reader, calls[r] the calls worker r has made with what each  *)
(* returned and the position Tell() reported after it.                     *)
(***************************************************************************)
CallE(op, arg, begin, stmts, eof, pos, err) ==
    [op |-> op, arg |-> arg, begin |-> begin, stmts |-> stmts, eof |-> eof,
     pos |-> pos, err |-> err]

\* A call that returned no error other than io.EOF.
Call(op, arg, begin, stmts, eof, pos) ==
    CallE(op, arg, begin, stmts, eof, pos, FALSE)

Log(r, c) == calls' = [calls EXCEPT ![r] = Append(@, c)]

WholeFile(f) == [r \in Readers |-> [offset |-> 0, size |-> Len(f)]]

\* The two regions [0, N) and [N, fileSize) of a file split at N.
SplitAt(f, N) ==
    [r \in Readers |-> IF r = 1 THEN [offset |-> 0, size |-> N]
                       ELSE [offset |-> N, size |-> Len(f) - N]]

\* The offsets of the first bytes of the lines of f.
LineStarts(f) == {0} \cup {i \in 1..(Len(f) - 1) : Ch(f, i) = "\n"}

\* The offsets a reader is constructed at: the first byte of a line, a
\* byte inside a line, the end of the file.
Offsets(f) ==
    LineStarts(f) \cup {s + 2 : s \in {x \in LineStarts(f) : x + 2 < Len(f)}}
                  \cup {Len(f)}

\* Whether a Read of worker r has returned io.EOF.
SawEOF(r) == \E i \in 1..Len(calls[r]) : calls[r][i].eof

\* No handle is open before the first reader is constructed.
InitIO ==
    /\ fds = [r \in Readers |-> "none"]
    /\ handles = 0
    /\ pending = [r \in Readers |-> Nil]

Init ==
    /\ file \in Files
    /\ regions = WholeFile(file)
    /\ mdr = [r \in Readers |-> Nil]
    /\ rr = [r \in Readers |-> Nil]
    /\ calls = [r \in Readers |-> <<>>]
    /\ InitIO

\* NewMDDataReader(file, offset) by worker r.
NewMDDataReader(r, offset) ==
    /\ calls[r] = <<>>
    /\ offset \in Offsets(file)
    /\ LET m == MDNew(file, offset)
       IN  /\ mdr' = [mdr EXCEPT ![r] = m]
           /\ Log(r, CallE("New", offset, offset, <<>>, FALSE,
                           IF m = Nil THEN -1 ELSE MDTell(m), m = Nil))
           /\ fds' = [fds EXCEPT ![r] = IF m = Nil THEN "none" ELSE "open"]
           /\ handles' = MDNewHandles(handles, m)
    /\ UNCHANGED <<file, regions, rr, pending>>

\* MDDataReader.Read(minSize) by worker r, followed by Tell().
Read(r, minSize) ==
    /\ mdr[r] # Nil
    /\ rr[r] = Nil
    /\ fds[r] = "open"
    /\ LET res == MDRead(file, mdr[r], minSize)
       IN  /\ mdr' = [mdr EXCEPT ![r] = res.m]
           /\ Log(r, Call("Read", minSize, MDTell(mdr[r]), res.stmts, res.eof,
                          MDTell(res.m)))
    /\ UNCHANGED <<file, regions, rr, io>>

\* The positions a worker has been told: the checkpoints it can hold.
Told(r) == {calls[r][i].pos : i \in 1..Len(calls[r])}

\* MDDataReader.Seek(offset) by worker r, followed by Tell().
Seek(r, offset) ==
    /\ mdr[r] # Nil
    /\ rr[r] = Nil
    /\ fds[r] = "open"
    /\ LET m == MDSeek(file, mdr[r], offset)
       IN  /\ mdr' = [mdr EXCEPT ![r] = m]
           /\ Log(r, Call("Seek", offset, MDTell(mdr[r]), <<>>, FALSE, MDTell(m)))
    /\ UNCHANGED <<file, regions, rr, io>>

\* NewRegionReader(file, offset, size) by worker r on its region.
NewRegionReader(r) ==
    /\ calls[r] = <<>>
    /\ LET g == regions[r]
           m == MDNew(file, g.offset)
       IN  /\ mdr' = [mdr EXCEPT ![r] = m]
           /\ rr' = [rr EXCEPT ![r] =
                        IF m = Nil THEN Nil ELSE RegionNew(m, g.offset, g.size)]
           /\ Log(r, CallE("New", g.offset, g.offset, <<>>, FALSE,
                           IF m = Nil THEN -1 ELSE MDTell(m), m = Nil))
           /\ fds' = [fds EXCEPT ![r] = IF m = Nil THEN "none" ELSE "open"]
           /\ handles' = MDNewHandles(handles, m)
    /\ UNCHANGED <<file, regions, pending>>

\* RegionReader.Read(maxBlockSize) by worker r, followed by Tell().
RegionRead(r, maxBlockSize) ==
    /\ rr[r] # Nil
    /\ fds[r] = "open"
    /\ IF RegionAtEnd(rr[r])
       THEN /\ Log(r, Call("Read", maxBlockSize, rr[r].pos, <<>>, TRUE, rr[r].pos))
            /\ UNCHANGED <<mdr, rr>>
       ELSE LET res == MDRead(file, mdr[r], RegionReadSize(rr[r], maxBlockSize))
            IN  /\ mdr' = [mdr EXCEPT ![r] = res.m]
                /\ rr' = [rr EXCEPT ![r].pos = MDTell(res.m)]
                /\ Log(r, Call("Read", maxBlockSize, rr[r].pos, res.stmts, res.eof,
                               MDTell(res.m)))
    /\ UNCHANGED <<file, regions, io>>

\* RegionReader.Seek(pos) by worker r, followed by Tell().
RegionSeek(r, pos) ==
    /\ rr[r] # Nil
    /\ fds[r] = "open"
    /\ LET m == MDSeek(file, mdr[r], pos)
       IN  /\ mdr' = [mdr EXCEPT ![r] = m]
           /\ rr' = [rr EXCEPT ![r].pos = MDTell(m)]
           /\ Log(r, Call("Seek", pos, rr[r].pos, <<>>, FALSE, MDTell(m)))
    /\ UNCHANGED <<file, regions, io>>

\* MDDataReader.Close() by worker r, followed by Tell().
Close(r) ==
    /\ mdr[r] # Nil
    /\ rr[r] = Nil
    /\ pending[r] = Nil
    /\ LET c == MDClose(mdr[r], fds[r])
       IN  /\ mdr' = [mdr EXCEPT ![r] = c.m]
           /\ fds' = [fds EXCEPT ![r] = c.fd]
           /\ handles' = IF c.err THEN handles ELSE handles - 1
           /\ Log(r, CallE("Close", 0, currOffset(mdr[r], fds[r]), <<>>, FALSE,
                           currOffset(c.m, c.fd), c.err))
    /\ UNCHANGED <<file, regions, rr, pending>>

\* MDDataReader.Read(minSize) by worker r after Close(), up to the head of
\* the line loop: beginPos is -1, which is below fsize, and Close() dropped
\* the buffer, so a new one is acquired.
ReadClosed(r, minSize) ==
    /\ mdr[r] # Nil
    /\ rr[r] = Nil
    /\ fds[r] = "closed"
    /\ pending[r] = Nil
    /\ currOffset(mdr[r], fds[r]) < mdr[r].fsize
    /\ mdr' = [mdr EXCEPT
                 ![r].bufferSize = acquireBufferReader(mdr[r], 2 * minSize)]
    /\ pending' = [pending EXCEPT
                     ![r] = [minSize |-> minSize, readSize |-> 0, spins |-> 0]]
    /\ UNCHANGED <<file, regions, rr, calls, fds, handles>>

\* One pass of the line loop of that Read: ReadBytes returns no bytes and
\* an error that is not io.EOF, so end stays false, nothing is appended and
\* readSize grows by 0.  The loop is left only when readSize >= minSize;
\* the error is not looked at, and Read then returns the batch with nil.
ReadClosedLoop(r) ==
    /\ pending[r] # Nil
    /\ LET p == pending[r]
           lineSize == 0
           readSize == p.readSize + lineSize
       IN  IF readSize >= p.minSize
           THEN /\ pending' = [pending EXCEPT ![r] = Nil]
                /\ Log(r, CallE("Read", p.minSize, currOffset(mdr[r], fds[r]),
                                <<>>, FALSE, currOffset(mdr[r], fds[r]), FALSE))
           ELSE /\ p.spins < MaxSpins
                /\ pending' = [pending EXCEPT
                                 ![r] = [p EXCEPT !.readSize = readSize,
                                                  !.spins = p.spins + 1]]
                /\ UNCHANGED calls
    /\ UNCHANGED <<file, regions, mdr, rr, fds, handles>>

(***************************************************************************)
(* Spec: one worker reads a file through an MDDataReader until io.EOF.     *)
(***************************************************************************)
Next ==
    \/ \E offset \in Offsets(file) : NewMDDataReader(1, offset)
    \/ \E minSize \in Sizes :
          /\ Len(calls[1]) < MaxCalls
          /\ ~SawEOF(1)
          /\ Read(1, minSize)

Spec == Init /\ [][Next]_vars

(***************************************************************************)
(* SpecSeek: one worker reads through an MDDataReader and seeks back to    *)
(* positions Tell() has reported.                                          *)
(***************************************************************************)
NextSeek ==
    \/ \E offset \in Offsets(file) : NewMDDataReader(1, offset)
    \/ \E minSize \in Sizes :
          /\ Len(calls[1]) < MaxSeekCalls
          /\ Read(1, minSize)
    \/ \E offset \in Told(1) :
          /\ Len(calls[1]) < MaxSeekCalls
          /\ Seek(1, offset)

SpecSeek == Init /\ [][NextSeek]_vars

(***************************************************************************)
(* SpecRegion: two workers, each with its own RegionReader, read the two   *)
(* regions [0, N) and [N, fileSize) of one file in any interleaving.       *)
(***************************************************************************)
\* A dump with a comment line of the shape Read skips: /* ... */ with no
\* semicolon after it.
CommentDump == HeaderLine \o "(1),\n" \o "/*cmmnt*/\n" \o "(2),\n(3);\n"

RegionFiles ==
    {Dump(k, n, TRUE) : k \in 0..MaxAnn, n \in 1..MaxRows}
        \cup EmbeddedDumps \cup {CommentDump}

BlockSizes == {10, 100}

InitRegion ==
    /\ file \in RegionFiles
    /\ \E N \in Offsets(file) \ {0, Len(file)} : regions = SplitAt(file, N)
    /\ mdr = [r \in Readers |-> Nil]
    /\ rr = [r \in Readers |-> Nil]
    /\ calls = [r \in Readers |-> <<>>]
    /\ InitIO

NextRegion ==
    \/ \E r \in Readers : NewRegionReader(r)
    \/ \E r \in Readers, maxBlockSize \in BlockSizes :
          /\ Len(calls[r]) < MaxRegionCalls
          /\ RegionRead(r, maxBlockSize)

SpecRegion == InitRegion /\ [][NextRegion]_vars

(***************************************************************************)
(* SpecClose: one worker constructs an MDDataReader, reads, closes it, and  *)
(* goes on calling Close and Read.                                         *)
(***************************************************************************)
ClosedSizes == {0, 1, 10}

NextClose ==
    \/ \E offset \in Offsets(file) : NewMDDataReader(1, offset)
    \/ \E minSize \in Sizes :
          /\ Len(calls[1]) < MaxCloseCalls
          /\ Read(1, minSize)
    \/ /\ Len(calls[1]) < MaxCloseCalls
       /\ Close(1)
    \/ \E minSize \in ClosedSizes :
          /\ Len(calls[1]) < MaxCloseCalls
          /\ ReadClosed(1, minSize)
    \/ ReadClosedLoop(1)

SpecClose == Init /\ [][NextClose]_vars

(***************************************************************************)
(* What the claims speak of: the statements a worker received, the value   *)
(* rows in them, and the value rows of the file.                           *)
(***************************************************************************)
RECURSIVE Flatten(_)
Flatten(ss) == IF ss = <<>> THEN <<>> ELSE Head(ss) \o Flatten(Tail(ss))

\* The batches and the statements worker r received, in order.
Batches(r) == [i \in 1..Len(calls[r]) |-> calls[r][i].stmts]
Emitted(r) == Flatten(Batches(r))

\* The pieces of s between the terminators ',' and ';'.
RECURSIVE SplitRows(_, _)
SplitRows(s, acc) ==
    IF Len(s) = 0 THEN (IF Len(acc) = 0 THEN <<>> ELSE <<acc>>)
    ELSE IF Ch(s, 1) \in {",", ";"} THEN <<acc>> \o SplitRows(Tail(s), "")
    ELSE SplitRows(Tail(s), acc \o Ch(s, 1))

\* The value rows of a statement: its text after the header.
RowsOfStmt(stmt, hdr) == SplitRows(SubSeq(stmt, Len(hdr) + 1, Len(stmt)), "")

RECURSIVE RowsOfStmts(_, _)
RowsOfStmts(ss, hdr) ==
    IF ss = <<>> THEN <<>>
    ELSE RowsOfStmt(Head(ss), hdr) \o RowsOfStmts(Tail(ss), hdr)

\* The value rows of the file, in file order: the lines "(...)," and
\* "(...);" without their terminator.
IsRowLine(line) ==
    HasPrefix(line, "(") /\ (HasSuffix(line, "),") \/ HasSuffix(line, ");"))

RECURSIVE FileRowsFrom(_, _)
FileRowsFrom(f, p) ==
    LET r == ReadLine(f, p)
        line == TrimSpace(r.line)
        here == IF IsRowLine(line) THEN <<SubSeq(line, 1, Len(line) - 1)>> ELSE <<>>
    IN  IF Len(r.line) = 0 THEN <<>> ELSE here \o FileRowsFrom(f, p + Len(r.line))

FileRows(f) == FileRowsFrom(f, 0)

Count(x, seq) == Cardinality({i \in 1..Len(seq) : seq[i] = x})

SameBag(a, b) ==
    /\ Len(a) = Len(b)
    /\ \A i \in 1..Len(a) : Count(a[i], a) = Count(a[i], b)

\* Worker r holds a reader constructed at `offset`.
ConstructedAt(r, offset) ==
    /\ mdr[r] # Nil
    /\ calls[r] # <<>>
    /\ calls[r][1].op = "New"
    /\ calls[r][1].arg = offset

\* The calls of worker r after construction are all Read(minSize).
OnlyReads(r, minSize) ==
    \A i \in 2..Len(calls[r]) : calls[r][i].op = "Read" /\ calls[r][i].arg = minSize

\* The next Read of worker r returns io.EOF.
AtEOF(r) == mdr[r] # Nil /\ MDTell(mdr[r]) >= mdr[r].fsize

(***************************************************************************)
(* C1: for a file of one header line followed by value rows, read from     *)
(* offset 0 with a fixed minSize until the reader is at end-of-file, the   *)
(* value rows of the emitted statements, in emission order, are exactly    *)
(* the value rows of the file in file order.                               *)
(***************************************************************************)
C1_RowsPreserved ==
    \A minSize \in Sizes :
        (/\ file \in PlainDumps
         /\ ConstructedAt(1, 0)
         /\ OnlyReads(1, minSize)
         /\ AtEOF(1))
        => RowsOfStmts(Emitted(1), mdr[1].stmtHeader) = FileRows(file)

\* A three-row file read to io.EOF in several Read(10) calls.
C1_Witness ==
    /\ file = Dump(0, 3, TRUE)
    /\ ConstructedAt(1, 0)
    /\ OnlyReads(1, 10)
    /\ SawEOF(1)
    /\ Len(Emitted(1)) = 2
    /\ FileRows(file) = <<"(1)", "(2)", "(3)">>

(***************************************************************************)
(* C2: every statement any Read returns starts with the detected header,   *)
(* ends with ';' and is longer than the header.                            *)
(***************************************************************************)
C2_StatementShape ==
    \A i \in 1..Len(calls[1]) :
        \A k \in 1..Len(calls[1][i].stmts) :
            LET stmt == calls[1][i].stmts[k]
            IN  /\ HasPrefix(stmt, mdr[1].stmtHeader)
                /\ HasSuffix(stmt, ";")
                /\ Len(stmt) > Len(mdr[1].stmtHeader)

\* A Read that consumed the header line alone and returned nothing, then a
\* Read that stopped before the last row and returned a statement: its
\* trailing ',' was rewritten.
C2_Witness ==
    /\ file \in PlainDumps
    /\ Len(calls[1]) >= 3
    /\ calls[1][2].op = "Read" /\ ~calls[1][2].eof /\ calls[1][2].stmts = <<>>
    /\ calls[1][3].op = "Read" /\ Len(calls[1][3].stmts) = 1
    /\ calls[1][3].pos < Len(file)

(***************************************************************************)
(* C3: a RegionReader constructed with (offset, size) never reports,       *)
(* through Tell() after construction or after a Read, a position greater   *)
(* than offset + size.                                                     *)
(***************************************************************************)
C3_WithinRegion ==
    \A r \in Readers :
        rr[r] # Nil =>
            /\ rr[r].pos <= regions[r].offset + regions[r].size
            /\ \A i \in 1..Len(calls[r]) :
                   calls[r][i].pos <= regions[r].offset + regions[r].size

(***************************************************************************)
(* C4: the readers of [0, N) and [N, fileSize), each read to the end of    *)
(* its region in any interleaving, never consume the same byte twice and   *)
(* together emit every value row of the file exactly once.                 *)
(***************************************************************************)
\* The bytes worker r consumed: the offsets from the position before each
\* Read to the position after it.
Consumed(r) ==
    UNION {calls[r][i].begin..(calls[r][i].pos - 1) :
               i \in {k \in 1..Len(calls[r]) : calls[r][k].op = "Read"}}

RegionDone(r) == rr[r] # Nil /\ RegionAtEnd(rr[r])

C4_DisjointAndComplete ==
    /\ Consumed(1) \cap Consumed(2) = {}
    /\ (RegionDone(1) /\ RegionDone(2)) =>
           SameBag(RowsOfStmts(Emitted(1), mdr[1].stmtHeader)
                       \o RowsOfStmts(Emitted(2), mdr[2].stmtHeader),
                   FileRows(file))

(***************************************************************************)
(* C5: on a reader at offset 0 of a file without annotation lines, a       *)
(* Read(N) followed by Reads up to the end of the file yields the same     *)
(* multiset of value rows as one Read that covers the whole file.          *)
(***************************************************************************)
\* The batch of one Read(fileSize) on a fresh reader at offset 0.
WholeRead(f) == MDRead(f, MDNew(f, 0), Len(f)).stmts

C5_SameRowsAsOneRead ==
    (/\ file \in PlainDumps
     /\ ConstructedAt(1, 0)
     /\ AtEOF(1))
    => SameBag(RowsOfStmts(Emitted(1), mdr[1].stmtHeader),
               RowsOfStmts(WholeRead(file), mdr[1].stmtHeader))

\* Read(22) then Read(100) on a three-row file: two statements where the
\* single Read gives one.
C5_Witness ==
    /\ file = Dump(0, 3, TRUE)
    /\ ConstructedAt(1, 0)
    /\ Len(calls[1]) = 3
    /\ calls[1][2].op = "Read" /\ calls[1][2].arg = 22
    /\ calls[1][3].op = "Read" /\ calls[1][3].arg = 100
    /\ AtEOF(1)
    /\ Len(Emitted(1)) = 2
    /\ Len(WholeRead(file)) = 1

(***************************************************************************)
(* C6: Seek(p) to a position p that Tell() reported makes Tell() report p  *)
(* again, wherever the cursor was, and a Read after it returns what the    *)
(* same Read returned after the checkpoint.                                *)
(***************************************************************************)
C6_SeekRestores ==
    \A i \in 1..Len(calls[1]) :
        calls[1][i].op = "Seek" =>
            /\ calls[1][i].pos = calls[1][i].arg
            /\ \A j \in 1..(i - 1) :
                   (/\ calls[1][j].pos = calls[1][i].arg
                    /\ i + 1 <= Len(calls[1])
                    /\ calls[1][j + 1].op = "Read"
                    /\ calls[1][i + 1].op = "Read"
                    /\ calls[1][j + 1].arg = calls[1][i + 1].arg)
                   => calls[1][i + 1].stmts = calls[1][j + 1].stmts

(***************************************************************************)
(* C7: for a file of k >= 0 annotation lines followed by the header line,  *)
(* a reader constructed at offset 0 reports the offset of the first byte   *)
(* of the header line: the total length of the k annotation lines.         *)
(***************************************************************************)
C7_SkipsLeadingAnnotations ==
    \A k \in 0..MaxAnn :
        (/\ HasPrefix(file, AnnLines(k) \o HeaderLine)
         /\ ConstructedAt(1, 0))
        => /\ calls[1][1].pos = Len(AnnLines(k))
           /\ (Len(calls[1]) = 1 => MDTell(mdr[1]) = Len(AnnLines(k)))

\* Two annotation lines skipped at construction.
C7_Witness ==
    /\ file = Dump(2, 2, TRUE)
    /\ ConstructedAt(1, 0)
    /\ Len(calls[1]) = 1
    /\ MDTell(mdr[1]) = 14
    /\ SubSeq(file, MDTell(mdr[1]) + 1, Len(file)) = Dump(0, 2, TRUE)

(***************************************************************************)
(* C8: a reader constructed at an offset strictly inside an annotation     *)
(* line is positioned at the first byte of the next line that is no        *)
(* annotation, or at the file size, and no statement a later Read emits    *)
(* holds a fragment of the comment.                                        *)
(***************************************************************************)
Contains(s, sub) ==
    \E i \in 1..(Len(s) - Len(sub) + 1) : SubSeq(s, i, i + Len(sub) - 1) = sub

LineAt(f, p) == ReadLine(f, p).line

IsAnnotationLine(f, p) ==
    p \in LineStarts(f) /\ IsAnnotation(TrimSpace(LineAt(f, p)))

\* After the first byte of an annotation line and before its newline.
InsideAnnotation(f, o) ==
    \E p \in LineStarts(f) :
        IsAnnotationLine(f, p) /\ p < o /\ o < p + Len(LineAt(f, p)) - 1

\* The first byte of a line that is no annotation, or the end of the file.
IsContentStart(f, p) ==
    p = Len(f) \/ (p \in LineStarts(f) /\ ~IsAnnotationLine(f, p))

NextContent(f, o) ==
    CHOOSE p \in o..Len(f) :
        IsContentStart(f, p) /\ \A q \in o..(p - 1) : ~IsContentStart(f, q)

C8_NeverInsideComment ==
    \A o \in 0..Len(file) :
        (ConstructedAt(1, o) /\ InsideAnnotation(file, o))
        => /\ calls[1][1].pos = NextContent(file, o)
           /\ \A k \in 1..Len(Emitted(1)) : ~Contains(Emitted(1)[k], "*/")

(***************************************************************************)
(* C9: an annotation line between two value rows is skipped by Read: no    *)
(* emitted statement holds its text, and the rows around it are emitted.   *)
(***************************************************************************)
C9_EmbeddedAnnotationSkipped ==
    (file \in EmbeddedDumps /\ ConstructedAt(1, 0))
    => /\ \A k \in 1..Len(Emitted(1)) : ~Contains(Emitted(1)[k], DropNL(AnnLine(1)))
       /\ AtEOF(1) =>
              \A i \in 1..Len(FileRows(file)) :
                  Count(FileRows(file)[i],
                        RowsOfStmts(Emitted(1), mdr[1].stmtHeader)) = 1

(***************************************************************************)
(* C10: for the file of the four lines INSERT INTO t VALUES, (1), (2),     *)
(* (3); a reader at offset 0 returns an empty batch from its first         *)
(* Read(10), which consumes the header line alone, the one statement       *)
(* INSERT INTO t VALUES(1),(2); from its second and the one statement      *)
(* INSERT INTO t VALUES(3); from its third.                                *)
(***************************************************************************)
FourLines == {Dump(0, 3, TRUE), Dump(0, 3, FALSE)}

C10_ThreeReads ==
    (/\ file \in FourLines
     /\ ConstructedAt(1, 0)
     /\ OnlyReads(1, 10))
    => /\ Len(calls[1]) >= 2 => calls[1][2].stmts = <<>> /\ ~calls[1][2].eof
       /\ Len(calls[1]) >= 3 => calls[1][3].stmts = <<"INSERT INTO t VALUES(1),(2);">>
       /\ Len(calls[1]) >= 4 => calls[1][4].stmts = <<"INSERT INTO t VALUES(3);">>

\* The three Read(10) calls have been made.
C10_Witness ==
    /\ file = "INSERT INTO t VALUES\n(1),\n(2),\n(3);\n"
    /\ ConstructedAt(1, 0)
    /\ OnlyReads(1, 10)
    /\ Len(calls[1]) = 4
    /\ Len(Emitted(1)) = 2

\* The claim as stated: the first Read(10) returns INSERT INTO t
\* VALUES(1),(2); and the second INSERT INTO t VALUES(3);
C10_TwoReads ==
    (/\ file \in FourLines
     /\ ConstructedAt(1, 0)
     /\ OnlyReads(1, 10)
     /\ Len(calls[1]) >= 3)
    => /\ calls[1][2].stmts = <<"INSERT INTO t VALUES(1),(2);">>
       /\ calls[1][3].stmts = <<"INSERT INTO t VALUES(3);">>

(***************************************************************************)
(* C11                                                                     *)
(***************************************************************************)
IsClose(r, i) == calls[r][i].op = "Close"

\* C11: Close() is idempotent: the first call releases the file handle, and
\* every later Close() returns no error and changes nothing.
C11_CloseIdempotent ==
    \A r \in Readers :
        /\ \A i \in 1..Len(calls[r]) : IsClose(r, i) => ~calls[r][i].err
        /\ (\E i \in 1..Len(calls[r]) : IsClose(r, i)) => fds[r] = "closed"

(***************************************************************************)
(* C12                                                                     *)
(***************************************************************************)
IsRead(r, i) == calls[r][i].op = "Read"

RegionEnd(r) == regions[r].offset + regions[r].size

\* The Read calls of worker r that began inside its region.
InnerReads(r) ==
    {i \in 1..Len(calls[r]) : IsRead(r, i) /\ calls[r][i].begin < RegionEnd(r)}

\* What the claim has call i ask the file reader for.
AskedSize(r, i) == Min(calls[r][i].arg, RegionEnd(r) - calls[r][i].begin)

SetMax(S) == CHOOSE x \in S : \A y \in S : y <= x

\* C12: a RegionReader.Read at position >= offset+size returns io.EOF with
\* an empty batch, does not touch the file reader and leaves the position;
\* any other Read asks the file reader for exactly
\* min(maxBlockSize, offset+size-position) bytes (seen in what it returned,
\* where it stopped, and the buffer the file reader acquired for it), and
\* afterwards the position is the file reader's Tell().
C12_RegionRead ==
    \A r \in Readers :
        rr[r] # Nil =>
            /\ rr[r].pos = MDTell(mdr[r])
            /\ \A i \in 1..Len(calls[r]) :
                   (IsRead(r, i) /\ i \notin InnerReads(r)) =>
                       /\ calls[r][i].eof
                       /\ calls[r][i].stmts = <<>>
                       /\ calls[r][i].pos = calls[r][i].begin
            /\ \A i \in InnerReads(r) :
                   LET res == MDRead(file, [mdr[r] EXCEPT !.fd = calls[r][i].begin],
                                     AskedSize(r, i))
                   IN  /\ calls[r][i].stmts = res.stmts
                       /\ calls[r][i].eof = res.eof
                       /\ calls[r][i].pos = MDTell(res.m)
            /\ mdr[r].bufferSize =
                   IF InnerReads(r) = {} THEN 0
                   ELSE SetMax({2 * AskedSize(r, i) : i \in InnerReads(r)})

\* A worker whose Read was clamped to the rest of its region and returned
\* statements, and whose next Read found the region finished.
C12_Witness ==
    \E r \in Readers :
        /\ rr[r] # Nil
        /\ \E i \in InnerReads(r) :
               /\ calls[r][i].arg > RegionEnd(r) - calls[r][i].begin
               /\ calls[r][i].stmts # <<>>
        /\ \E i \in 1..Len(calls[r]) :
               /\ IsRead(r, i)
               /\ i \notin InnerReads(r)
               /\ calls[r][i].eof

(***************************************************************************)
(* C13                                                                     *)
(***************************************************************************)
\* The place of row x among the rows of the file, 0 when x is not one.
RowIndex(x, f) ==
    LET rows == FileRows(f)
    IN  IF \E k \in 1..Len(rows) : rows[k] = x
        THEN CHOOSE k \in 1..Len(rows) : rows[k] = x
        ELSE 0

\* C13: within one RegionReader and with no Seek, Tell() never decreases
\* from one call to the next, and a row at a lower file offset is never
\* emitted after a row at a higher file offset.
C13_InOrder ==
    \A r \in Readers :
        rr[r] # Nil =>
            /\ \A i, j \in 1..Len(calls[r]) :
                   i < j => calls[r][i].pos <= calls[r][j].pos
            /\ LET rows == RowsOfStmts(Emitted(r), mdr[r].stmtHeader)
               IN  \A a, b \in 1..Len(rows) :
                      (/\ a < b
                       /\ RowIndex(rows[a], file) > 0
                       /\ RowIndex(rows[b], file) > 0)
                          => RowIndex(rows[a], file) <= RowIndex(rows[b], file)

(***************************************************************************)
(* C14                                                                     *)
(***************************************************************************)
\* C14: after construction, Seek and Read, Tell() is the file size or the
\* first byte of a line that is no annotation line.
C14_RestsOnContent ==
    \A r \in Readers :
        mdr[r] # Nil => IsContentStart(file, MDTell(mdr[r]))

(***************************************************************************)
(* C15                                                                     *)
(***************************************************************************)
\* Where the shortest run of whole lines from p ends whose lengths, added
\* to total, reach n; the end of the file when no run does.
RECURSIVE WholeLinesEnd(_, _, _, _)
WholeLinesEnd(f, p, n, total) ==
    LET size == Len(ReadLine(f, p).line)
    IN  IF size = 0 THEN p
        ELSE IF total + size >= n THEN p + size
        ELSE WholeLinesEnd(f, p + size, n, total + size)

\* C15: a Read(minSize) that starts at b < fileSize leaves the position at
\* b plus the length of the whole lines it consumed: the shortest run of
\* lines from b of length >= minSize, or all lines to the end of the file.
C15_PositionExact ==
    \A r \in Readers :
        \A i \in 1..Len(calls[r]) :
            (IsRead(r, i) /\ calls[r][i].begin < Len(file))
                => calls[r][i].pos =
                       WholeLinesEnd(file, calls[r][i].begin, calls[r][i].arg, 0)

RECURSIVE FirstMatch(_, _)
FirstMatch(f, p) ==
    LET line == ReadLine(f, p).line
        loc == FindStringIndex(line)
    IN  IF Len(line) = 0 THEN ""
        ELSE IF Len(loc) > 0 THEN SubSeq(line, loc[1] + 1, loc[2])
        ELSE FirstMatch(f, p + Len(line))

\* C17: construction fails with ErrInsertStatementNotFound exactly when no
\* line of the file matches the pattern, the last line without a newline
\* included; otherwise the header is the match in the first matching line.
C17_HeaderDetected ==
    \A r \in Readers :
        \A i \in 1..Len(calls[r]) :
            calls[r][i].op = "New" =>
                /\ calls[r][i].err <=> (FirstMatch(file, 0) = "")
                /\ mdr[r] # Nil => mdr[r].stmtHeader = FirstMatch(file, 0)

(***************************************************************************)
(* C18                                                                     *)
(***************************************************************************)
\* C18: a Read whose file read fails with an error other than io.EOF, as
\* every Read after Close() does, ends at the failed read and returns an
\* error: it does not go round the loop again, and it does not return as a
\* normal batch.
C18_ReadFailureReported ==
    \A r \in Readers :
        /\ pending[r] # Nil => pending[r].spins = 0
        /\ \A i \in 1..Len(calls[r]) :
               (IsRead(r, i) /\ calls[r][i].begin < 0) => calls[r][i].err

(***************************************************************************)
(* C19                                                                     *)
(***************************************************************************)
\* C19: every RegionReader.Read that does not return io.EOF moves Tell()
\* strictly forward, and never beyond the file size, so only finitely many
\* Reads do not return io.EOF; after a Read returned io.EOF every further
\* Read returns io.EOF with an empty batch and leaves Tell() unchanged.
C19_Progress ==
    \A r \in Readers :
        \A i \in 1..Len(calls[r]) :
            IsRead(r, i) =>
                /\ ~calls[r][i].eof =>
                       /\ calls[r][i].begin < calls[r][i].pos
                       /\ calls[r][i].pos <= Len(file)
                /\ calls[r][i].eof =>
                       /\ calls[r][i].stmts = <<>>
                       /\ calls[r][i].pos = calls[r][i].begin
                       /\ \A j \in i..Len(calls[r]) : calls[r][j].eof

\* A worker whose Read moved it forward and who then got io.EOF from two
\* Reads in a row.
C19_Witness ==
    \E r \in Readers :
        \E i \in 1..(Len(calls[r]) - 2) :
            /\ IsRead(r, i)
            /\ ~calls[r][i].eof
            /\ calls[r][i].stmts # <<>>
            /\ calls[r][i + 1].eof
            /\ calls[r][i + 2].eof

(***************************************************************************)
(* C20                                                                     *)
(***************************************************************************)
\* C20: construction leaks no handle: the handles that are open are those
\* of the readers that were returned and not yet closed.
C20_NoHandleLeak ==
    handles = Cardinality({r \in Readers : fds[r] = "open"})

====
